---- MODULE Spec2Model ----
(***************************************************************************)
(* Model of the nakurity backend: the in-memory session store              *)
(* (api/session-store.js), the session HTTP handler (api/session.js) and   *)
(* the vision gate with its fixed-window rate limiter (api/neuro-os        *)
(* vision handler), and the rotating schedule file served by               *)
(* api/ncom/schedule.js.                                                   *)
(*                                                                         *)
(* Time is the value of Date.now().  A handler runs synchronously on the   *)
(* event loop, so all the clock reads of one handler invocation (up to its *)
(* first await) see the same value `now`; the clock advances between       *)
(* requests (Tick).  Times and capacities are scaled down: the structure   *)
(* of the code depends only on their order relations.                      *)
(***************************************************************************)
EXTENDS Naturals, Integers, Sequences, FiniteSets, TLC

(* now          : the clock, Date.now()                                     *)
(* sessions     : the session Map, key -> session record                    *)
(* nextKey      : the next key generateSessionKey returns; 32 random bytes  *)
(*                are taken as never repeating, so keys are issued fresh    *)
(*                and in increasing order                                   *)
(* rateLimitMap : the rate-limit Map, client identifier -> window           *)
(* pending      : vision handlers suspended on the call of the external     *)
(*                model                                                     *)
(* last         : the latest request and its response                       *)
(* scheduleFile : the content of data/ncom/videoSchedule.json               *)
(* reply        : the latest response of the schedule endpoint              *)
(* admitted     : history of the rate limiter: per client identifier and    *)
(*                clock value, the number of Check calls that returned true *)
VARIABLES now, sessions, nextKey, rateLimitMap, pending, last,
          scheduleFile, reply, admitted

vars == <<now, sessions, nextKey, rateLimitMap, pending, last,
          scheduleFile, reply, admitted>>

(* Program constants.  The timeout (5 min), the capacity (100), the rate    *)
(* limit (10) and the rate window (1 min) are scaled down to values that    *)
(* keep every comparison of the code reachable.                             *)
SESSION_TIMEOUT == 1
MAX_SESSIONS == 2
RATE_LIMIT == 2
RATE_WINDOW == 1
HEARTBEAT_INTERVAL == 60000

(* Bounds of the model. *)
MaxNow == 2
MaxKeys == 3
MaxPending == 1
MaxStoreKeys == 2

(* Request inputs: header values; "" is an absent or empty header, key 0 an *)
(* absent X-Session-Key.                                                    *)

(* Clients: two behind the same address with different user agents (one   *)
(* client identifier, two fingerprints) and one behind a forwarding proxy. *)
Clients ==
  { [xff |-> "",  remote |-> "c", ua |-> ""],
    [xff |-> "",  remote |-> "c", ua |-> "b"],
    [xff |-> "a", remote |-> "c", ua |-> "b"] }
KeyHeaders == 0..MaxKeys
Requests ==
  { [xff |-> c.xff, remote |-> c.remote, ua |-> c.ua, key |-> k, image |-> i] :
      c \in Clients, k \in KeyHeaders, i \in BOOLEAN }

(* JavaScript a || b on strings: the first operand unless it is falsy. *)
OrElse(a, b) == IF a # "" THEN a ELSE b

(* sha256 is taken as injective on its input, the concatenation ip + userAgent. *)
generateFingerprint(req) == OrElse(OrElse(req.xff, req.remote), "") \o req.ua

clientIdOf(req) == OrElse(OrElse(req.xff, req.remote), "unknown")

(* new Date(ms).toISOString(): seconds and milliseconds of the timestamp. *)
toISOString(ms) == <<ms \div 1000, ms % 1000>>

NoDate == <<>>

(* Mutant: the sweep at the start of a request is left out. *)
cleanupSkipped(s, t) == s

(* Mutant: the sweep stops after the first expired session it deletes. *)
cleanupFirstExpiredOnly(s, t) ==
  LET expired == {j \in DOMAIN s : t > s[j].expiresAt}
      first == CHOOSE j \in expired : \A i \in expired : j <= i
  IN  IF expired = {} THEN s ELSE [k \in DOMAIN s \ {first} |-> s[k]]

cleanupExpiredSessions(s, t) ==
  [k \in {j \in DOMAIN s : ~(t > s[j].expiresAt)} |-> s[k]]

(* What a request leaves behind: its inputs, the response (status 0: none  *)
(* yet, the handler is awaiting the external model) and the path it took:  *)
(* the keys it purged as expired, whether it consulted the rate limiter    *)
(* and whether it started the call of the external model.                  *)
Response(op, req, status, sessionKey, expiresAt, interval, reason, rateChecked, invoked, purged) ==
  [op |-> op, key |-> req.key, fp |-> generateFingerprint(req), clientId |-> clientIdOf(req),
   status |-> status, sessionKey |-> sessionKey, expiresAt |-> expiresAt,
   heartbeatInterval |-> interval, reason |-> reason, rateChecked |-> rateChecked,
   invoked |-> invoked, purged |-> purged]

NoRequest == [xff |-> "", remote |-> "", ua |-> "", key |-> 0, image |-> FALSE]

(* The schedule file as JSON.parse sees it.  shape: "missing" (no file),    *)
(* "corrupt" (unreadable or not JSON), "other" (JSON of another shape),     *)
(* "array" (the legacy bare array) or "object" ({schedule, nextRefresh});   *)
(* hasRefresh tells whether nextRefresh is present and a number.            *)
File(shape, schedule, hasRefresh, nextRefresh) ==
  [shape |-> shape, schedule |-> schedule, hasRefresh |-> hasRefresh,
   nextRefresh |-> nextRefresh]

NoFile == File("missing", <<>>, FALSE, 0)

(* A response of the schedule endpoint: status and the JSON body, and the   *)
(* path loadSchedule took for it: "null", "wrapped" (legacy array),        *)
(* "refreshed" (nextRefresh set) or "read".                                *)
Reply(method, status, kind, schedule, nextRefresh, path) ==
  [method |-> method, status |-> status, kind |-> kind, schedule |-> schedule,
   nextRefresh |-> nextRefresh, path |-> path]

NoReply == Reply("none", 0, "none", <<>>, 0, "none")

ClientIds == {clientIdOf(c) : c \in Clients}

NoneAdmitted == [i \in ClientIds |-> [t \in 0..MaxNow |-> 0]]

Init ==
  /\ now = 0
  /\ sessions = <<>>
  /\ nextKey = 1
  /\ rateLimitMap = <<>>
  /\ pending = 0
  /\ last = Response("none", NoRequest, 0, 0, NoDate, 0, "", FALSE, FALSE, {})
  /\ scheduleFile = NoFile
  /\ reply = NoReply
  /\ admitted = NoneAdmitted

Tick ==
  /\ now < MaxNow
  /\ now' = now + 1
  /\ UNCHANGED <<scheduleFile, reply, admitted, sessions, nextKey, rateLimitMap, pending, last>>

(* ---- api/session.js ---- *)

(* Mutant: the capacity check is off by one. *)
atCapacityOffByOne(s) == Cardinality(DOMAIN s) > MAX_SESSIONS

atCapacity(s) == Cardinality(DOMAIN s) >= MAX_SESSIONS

reusable(session, fingerprint, t) ==
  session.fingerprint = fingerprint /\ t < session.expiresAt

(* Map iteration is in insertion order; keys are issued in increasing order *)
(* and never re-inserted, so the first match is the smallest matching key.  *)
firstReusable(s, fingerprint, t) ==
  LET matches == {k \in DOMAIN s : reusable(s[k], fingerprint, t)}
  IN  IF matches = {} THEN 0 ELSE CHOOSE k \in matches : \A j \in matches : k <= j

newSession(fingerprint, t) ==
  [fingerprint |-> fingerprint, createdAt |-> t, expiresAt |-> t + SESSION_TIMEOUT,
   lastHeartbeat |-> t, claimed |-> TRUE]

(* Mutant: the fingerprint of the caller is not compared. *)
fingerprintIgnored(session, fingerprint) == TRUE

fingerprintMatches(session, fingerprint) == session.fingerprint = fingerprint

(* Mutant: the new expiry is measured from the creation time. *)
extendFromCreation(session, t) ==
  [session EXCEPT !.lastHeartbeat = t, !.expiresAt = session.createdAt + SESSION_TIMEOUT]

extendSession(session, t) ==
  [session EXCEPT !.lastHeartbeat = t, !.expiresAt = t + SESSION_TIMEOUT]

(* Mutant: a new session takes the smallest key that is not in the table,  *)
(* so the key of a removed session is issued again.                        *)
claimHandlerKeyReused(s, key, req, t) ==
  LET swept == cleanupExpiredSessions(s, t)
      fingerprint == generateFingerprint(req)
      existingKey == firstReusable(swept, fingerprint, t)
      free == CHOOSE k \in 1..key : k \notin DOMAIN swept /\ \A j \in 1..(k - 1) : j \in DOMAIN swept
  IN  IF atCapacity(swept)
      THEN [sessions |-> swept, nextKey |-> key,
            resp |-> Response("claim", req, 429, 0, NoDate, 0, "", FALSE, FALSE,
                              DOMAIN s \ DOMAIN swept)]
      ELSE IF existingKey # 0
      THEN [sessions |-> swept, nextKey |-> key,
            resp |-> Response("claim", req, 200, existingKey,
                              toISOString(swept[existingKey].expiresAt), 0, "", FALSE, FALSE,
                              DOMAIN s \ DOMAIN swept)]
      ELSE [sessions |-> swept @@ (free :> newSession(fingerprint, t)),
            nextKey |-> IF free = key THEN key + 1 ELSE key,
            resp |-> Response("claim", req, 200, free, toISOString(t + SESSION_TIMEOUT),
                              HEARTBEAT_INTERVAL, "", FALSE, FALSE,
                              DOMAIN s \ DOMAIN swept)]

(* Mutant: the capacity check is made before the sweep. *)
claimHandlerCheckFirst(s, key, req, t) ==
  LET swept == cleanupExpiredSessions(s, t)
      fingerprint == generateFingerprint(req)
      existingKey == firstReusable(swept, fingerprint, t)
  IN  IF atCapacity(s)
      THEN [sessions |-> swept, nextKey |-> key,
            resp |-> Response("claim", req, 429, 0, NoDate, 0, "", FALSE, FALSE,
                              DOMAIN s \ DOMAIN swept)]
      ELSE IF existingKey # 0
      THEN [sessions |-> swept, nextKey |-> key,
            resp |-> Response("claim", req, 200, existingKey,
                              toISOString(swept[existingKey].expiresAt), 0, "", FALSE, FALSE,
                              DOMAIN s \ DOMAIN swept)]
      ELSE [sessions |-> swept @@ (key :> newSession(fingerprint, t)), nextKey |-> key + 1,
            resp |-> Response("claim", req, 200, key, toISOString(t + SESSION_TIMEOUT),
                              HEARTBEAT_INTERVAL, "", FALSE, FALSE,
                              DOMAIN s \ DOMAIN swept)]

(* GET .../claim: sweep, capacity check, reuse scan, create. *)
claimHandler(s, key, req, t) ==
  LET swept == cleanupExpiredSessions(s, t)
      fingerprint == generateFingerprint(req)
      existingKey == firstReusable(swept, fingerprint, t)
  IN  IF atCapacity(swept)
      THEN [sessions |-> swept, nextKey |-> key,
            resp |-> Response("claim", req, 429, 0, NoDate, 0, "", FALSE, FALSE,
                              DOMAIN s \ DOMAIN swept)]
      ELSE IF existingKey # 0
      THEN [sessions |-> swept, nextKey |-> key,
            resp |-> Response("claim", req, 200, existingKey,
                              toISOString(swept[existingKey].expiresAt), 0, "", FALSE, FALSE,
                              DOMAIN s \ DOMAIN swept)]
      ELSE [sessions |-> swept @@ (key :> newSession(fingerprint, t)), nextKey |-> key + 1,
            resp |-> Response("claim", req, 200, key, toISOString(t + SESSION_TIMEOUT),
                              HEARTBEAT_INTERVAL, "", FALSE, FALSE,
                              DOMAIN s \ DOMAIN swept)]

(* POST .../heartbeat *)
heartbeatHandler(s, req, t) ==
  LET swept == cleanupExpiredSessions(s, t)
      fingerprint == generateFingerprint(req)
  IN  IF req.key = 0
      THEN [sessions |-> swept,
            resp |-> Response("heartbeat", req, 400, 0, NoDate, 0, "", FALSE, FALSE,
                              DOMAIN s \ DOMAIN swept)]
      ELSE IF req.key \notin DOMAIN swept
      THEN [sessions |-> swept,
            resp |-> Response("heartbeat", req, 404, 0, NoDate, 0, "", FALSE, FALSE,
                              DOMAIN s \ DOMAIN swept)]
      ELSE IF ~fingerprintMatches(swept[req.key], fingerprint)
      THEN [sessions |-> swept,
            resp |-> Response("heartbeat", req, 403, 0, NoDate, 0, "", FALSE, FALSE,
                              DOMAIN s \ DOMAIN swept)]
      ELSE LET extended == extendSession(swept[req.key], t)
           IN  [sessions |-> [swept EXCEPT ![req.key] = extended],
                resp |-> Response("heartbeat", req, 200, 0, toISOString(extended.expiresAt),
                                  0, "", FALSE, FALSE,
                              DOMAIN s \ DOMAIN swept)]

(* POST .../release *)
releaseHandler(s, req, t) ==
  LET swept == cleanupExpiredSessions(s, t)
      fingerprint == generateFingerprint(req)
  IN  IF req.key = 0
      THEN [sessions |-> swept,
            resp |-> Response("release", req, 400, 0, NoDate, 0, "", FALSE, FALSE,
                              DOMAIN s \ DOMAIN swept)]
      ELSE IF req.key \notin DOMAIN swept
      THEN [sessions |-> swept,
            resp |-> Response("release", req, 404, 0, NoDate, 0, "", FALSE, FALSE,
                              DOMAIN s \ DOMAIN swept)]
      ELSE IF fingerprintMatches(swept[req.key], fingerprint)
      THEN [sessions |-> [k \in DOMAIN swept \ {req.key} |-> swept[k]],
            resp |-> Response("release", req, 200, 0, NoDate, 0, "", FALSE, FALSE,
                              DOMAIN s \ DOMAIN swept)]
      ELSE [sessions |-> swept,
            resp |-> Response("release", req, 403, 0, NoDate, 0, "", FALSE, FALSE,
                              DOMAIN s \ DOMAIN swept)]

(* The session endpoints read no body. *)
SessionRequests == {r \in Requests : ~r.image}

Claim ==
  \E req \in {r \in SessionRequests : r.key = 0} :
    LET out == claimHandler(sessions, nextKey, req, now)
    IN  /\ out.nextKey <= MaxKeys + 1
        /\ sessions' = out.sessions
        /\ nextKey' = out.nextKey
        /\ last' = out.resp
        /\ UNCHANGED <<scheduleFile, reply, admitted, now, rateLimitMap, pending>>

Heartbeat ==
  \E req \in SessionRequests :
    LET out == heartbeatHandler(sessions, req, now)
    IN  /\ sessions' = out.sessions
        /\ last' = out.resp
        /\ UNCHANGED <<scheduleFile, reply, admitted, now, nextKey, rateLimitMap, pending>>

Release ==
  \E req \in SessionRequests :
    LET out == releaseHandler(sessions, req, now)
    IN  /\ sessions' = out.sessions
        /\ last' = out.resp
        /\ UNCHANGED <<scheduleFile, reply, admitted, now, nextKey, rateLimitMap, pending>>

(* OPTIONS on the session endpoint returns before the sweep. *)
SessionOptions ==
  /\ last' = Response("options", NoRequest, 200, 0, NoDate, 0, "", FALSE, FALSE, {})
  /\ UNCHANGED <<scheduleFile, reply, admitted, now, sessions, nextKey, rateLimitMap, pending>>

(* Any other path or method: sweep, then 404. *)
SessionNotFound ==
  /\ sessions' = cleanupExpiredSessions(sessions, now)
  /\ last' = Response("notfound", NoRequest, 404, 0, NoDate, 0, "", FALSE, FALSE,
                      DOMAIN sessions \ DOMAIN cleanupExpiredSessions(sessions, now))
  /\ UNCHANGED <<scheduleFile, reply, admitted, now, nextKey, rateLimitMap, pending>>

(* ---- api/session-store.js: validateSession ---- *)

(* Mutant: the fingerprint is compared before the expiry. *)
validateFingerprintFirst(s, sessionKey, req, t) ==
  IF sessionKey \notin DOMAIN s
  THEN [valid |-> FALSE, reason |-> "Session not found or expired", sessions |-> s]
  ELSE IF s[sessionKey].fingerprint # generateFingerprint(req)
  THEN [valid |-> FALSE, reason |-> "Session fingerprint mismatch", sessions |-> s]
  ELSE IF t > s[sessionKey].expiresAt
  THEN [valid |-> FALSE, reason |-> "Session expired",
        sessions |-> [k \in DOMAIN s \ {sessionKey} |-> s[k]]]
  ELSE [valid |-> TRUE, reason |-> "valid", sessions |-> s]

(* Mutant: a session presented with another fingerprint is deleted. *)
validateSessionDropsMismatch(s, sessionKey, req, t) ==
  IF sessionKey \notin DOMAIN s
  THEN [valid |-> FALSE, reason |-> "Session not found or expired", sessions |-> s]
  ELSE IF t > s[sessionKey].expiresAt
  THEN [valid |-> FALSE, reason |-> "Session expired",
        sessions |-> [k \in DOMAIN s \ {sessionKey} |-> s[k]]]
  ELSE IF s[sessionKey].fingerprint # generateFingerprint(req)
  THEN [valid |-> FALSE, reason |-> "Session fingerprint mismatch",
        sessions |-> [k \in DOMAIN s \ {sessionKey} |-> s[k]]]
  ELSE [valid |-> TRUE, reason |-> "valid", sessions |-> s]

validateSession(s, sessionKey, req, t) ==
  IF sessionKey \notin DOMAIN s
  THEN [valid |-> FALSE, reason |-> "Session not found or expired", sessions |-> s]
  ELSE IF t > s[sessionKey].expiresAt
  THEN [valid |-> FALSE, reason |-> "Session expired",
        sessions |-> [k \in DOMAIN s \ {sessionKey} |-> s[k]]]
  ELSE IF s[sessionKey].fingerprint # generateFingerprint(req)
  THEN [valid |-> FALSE, reason |-> "Session fingerprint mismatch", sessions |-> s]
  ELSE [valid |-> TRUE, reason |-> "valid", sessions |-> s]

(* ---- vision endpoint ---- *)

validateSessionKey(s, req, t) ==
  IF req.key = 0
  THEN [valid |-> FALSE, reason |-> "Missing session key", sessions |-> s]
  ELSE validateSession(s, req.key, req, t)

(* The window object is mutated in place: a reset reaches the map even when *)
(* the call is then rejected; a window that is not yet in the map is stored *)
(* only when the call is accepted.                                          *)
(* Mutant: a window is reset as soon as the clock reaches resetAt. *)
windowElapsedAtReset(t, resetAt) == t >= resetAt

windowElapsed(t, resetAt) == t > resetAt

(* Mutant: one request too many passes per window. *)
limitExceeded(count) == count > RATE_LIMIT

limitReached(count) == count >= RATE_LIMIT

(* Mutant: a rejected call is counted too. *)
checkRateLimitCountsRejected(m, identifier, t) ==
  LET stored == identifier \in DOMAIN m
      userLimits == IF stored THEN m[identifier] ELSE [count |-> 0, resetAt |-> t + RATE_WINDOW]
      current == IF windowElapsed(t, userLimits.resetAt)
                 THEN [count |-> 0, resetAt |-> t + RATE_WINDOW]
                 ELSE userLimits
      counted == [count |-> current.count + 1, resetAt |-> current.resetAt]
  IN  IF limitReached(current.count)
      THEN [ok |-> FALSE, map |-> IF stored THEN [m EXCEPT ![identifier] = counted] ELSE m]
      ELSE [ok |-> TRUE,
            map |-> [i \in DOMAIN m \cup {identifier} |->
                       IF i = identifier THEN counted ELSE m[i]]]

checkRateLimit(m, identifier, t) ==
  LET stored == identifier \in DOMAIN m
      userLimits == IF stored THEN m[identifier] ELSE [count |-> 0, resetAt |-> t + RATE_WINDOW]
      current == IF windowElapsed(t, userLimits.resetAt)
                 THEN [count |-> 0, resetAt |-> t + RATE_WINDOW]
                 ELSE userLimits
  IN  IF limitReached(current.count)
      THEN [ok |-> FALSE, map |-> IF stored THEN [m EXCEPT ![identifier] = current] ELSE m]
      ELSE [ok |-> TRUE,
            map |-> [i \in DOMAIN m \cup {identifier} |->
                       IF i = identifier
                       THEN [count |-> current.count + 1, resetAt |-> current.resetAt]
                       ELSE m[i]]]

(* Mutant: the rate limiter is consulted before the session is validated. *)
visionHandlerLimitFirst(s, m, req, t) ==
  LET sessionValidation == validateSessionKey(s, req, t)
      limit == checkRateLimit(m, clientIdOf(req), t)
  IN  IF ~sessionValidation.valid
      THEN [sessions |-> sessionValidation.sessions, map |-> limit.map,
            resp |-> Response("vision", req, 401, 0, NoDate, 0, sessionValidation.reason,
                              TRUE, FALSE, DOMAIN s \ DOMAIN sessionValidation.sessions)]
      ELSE IF ~limit.ok
      THEN [sessions |-> sessionValidation.sessions, map |-> limit.map,
            resp |-> Response("vision", req, 429, 0, NoDate, 0, sessionValidation.reason,
                              TRUE, FALSE, DOMAIN s \ DOMAIN sessionValidation.sessions)]
      ELSE IF ~req.image
      THEN [sessions |-> sessionValidation.sessions, map |-> limit.map,
            resp |-> Response("vision", req, 400, 0, NoDate, 0, sessionValidation.reason,
                              TRUE, FALSE, DOMAIN s \ DOMAIN sessionValidation.sessions)]
      ELSE [sessions |-> sessionValidation.sessions, map |-> limit.map,
            resp |-> Response("vision", req, 0, 0, NoDate, 0, sessionValidation.reason,
                              TRUE, TRUE, DOMAIN s \ DOMAIN sessionValidation.sessions)]

(* Mutant: the 429 branch sends its answer but does not return. *)
visionHandlerNoReturn(s, m, req, t) ==
  LET sessionValidation == validateSessionKey(s, req, t)
      limit == checkRateLimit(m, clientIdOf(req), t)
  IN  IF ~sessionValidation.valid
      THEN [sessions |-> sessionValidation.sessions, map |-> m,
            resp |-> Response("vision", req, 401, 0, NoDate, 0, sessionValidation.reason,
                              FALSE, FALSE, DOMAIN s \ DOMAIN sessionValidation.sessions)]
      ELSE IF ~limit.ok
      THEN [sessions |-> sessionValidation.sessions, map |-> limit.map,
            resp |-> Response("vision", req, 429, 0, NoDate, 0, sessionValidation.reason,
                              TRUE, req.image, DOMAIN s \ DOMAIN sessionValidation.sessions)]
      ELSE IF ~req.image
      THEN [sessions |-> sessionValidation.sessions, map |-> limit.map,
            resp |-> Response("vision", req, 400, 0, NoDate, 0, sessionValidation.reason,
                              TRUE, FALSE, DOMAIN s \ DOMAIN sessionValidation.sessions)]
      ELSE [sessions |-> sessionValidation.sessions, map |-> limit.map,
            resp |-> Response("vision", req, 0, 0, NoDate, 0, sessionValidation.reason,
                              TRUE, TRUE, DOMAIN s \ DOMAIN sessionValidation.sessions)]

(* Mutant: a request refused for its missing image leaves the windows as   *)
(* they were before its Check.                                             *)
visionHandlerRefundsMissingImage(s, m, req, t) ==
  LET sessionValidation == validateSessionKey(s, req, t)
      limit == checkRateLimit(m, clientIdOf(req), t)
  IN  IF ~sessionValidation.valid
      THEN [sessions |-> sessionValidation.sessions, map |-> m,
            resp |-> Response("vision", req, 401, 0, NoDate, 0, sessionValidation.reason,
                              FALSE, FALSE, DOMAIN s \ DOMAIN sessionValidation.sessions)]
      ELSE IF ~limit.ok
      THEN [sessions |-> sessionValidation.sessions, map |-> limit.map,
            resp |-> Response("vision", req, 429, 0, NoDate, 0, sessionValidation.reason,
                              TRUE, FALSE, DOMAIN s \ DOMAIN sessionValidation.sessions)]
      ELSE IF ~req.image
      THEN [sessions |-> sessionValidation.sessions, map |-> m,
            resp |-> Response("vision", req, 400, 0, NoDate, 0, sessionValidation.reason,
                              TRUE, FALSE, DOMAIN s \ DOMAIN sessionValidation.sessions)]
      ELSE [sessions |-> sessionValidation.sessions, map |-> limit.map,
            resp |-> Response("vision", req, 0, 0, NoDate, 0, sessionValidation.reason,
                              TRUE, TRUE, DOMAIN s \ DOMAIN sessionValidation.sessions)]

(* POST: validate the session, then the rate limit, then the body; the call *)
(* of the external model is started last and awaited (invoked = TRUE).      *)
visionHandler(s, m, req, t) ==
  LET sessionValidation == validateSessionKey(s, req, t)
      limit == checkRateLimit(m, clientIdOf(req), t)
  IN  IF ~sessionValidation.valid
      THEN [sessions |-> sessionValidation.sessions, map |-> m,
            resp |-> Response("vision", req, 401, 0, NoDate, 0, sessionValidation.reason,
                              FALSE, FALSE, DOMAIN s \ DOMAIN sessionValidation.sessions)]
      ELSE IF ~limit.ok
      THEN [sessions |-> sessionValidation.sessions, map |-> limit.map,
            resp |-> Response("vision", req, 429, 0, NoDate, 0, sessionValidation.reason,
                              TRUE, FALSE, DOMAIN s \ DOMAIN sessionValidation.sessions)]
      ELSE IF ~req.image
      THEN [sessions |-> sessionValidation.sessions, map |-> limit.map,
            resp |-> Response("vision", req, 400, 0, NoDate, 0, sessionValidation.reason,
                              TRUE, FALSE, DOMAIN s \ DOMAIN sessionValidation.sessions)]
      ELSE [sessions |-> sessionValidation.sessions, map |-> limit.map,
            resp |-> Response("vision", req, 0, 0, NoDate, 0, sessionValidation.reason,
                              TRUE, TRUE, DOMAIN s \ DOMAIN sessionValidation.sessions)]

(* The vision endpoint is driven by one client per client identifier. *)
VisionRequests == {r \in Requests : r.xff = "a" \/ r.ua = ""}

Vision ==
  \E req \in VisionRequests :
    LET out == visionHandler(sessions, rateLimitMap, req, now)
    IN  /\ out.resp.invoked => pending < MaxPending
        /\ sessions' = out.sessions
        /\ rateLimitMap' = out.map
        /\ pending' = IF out.resp.invoked THEN pending + 1 ELSE pending
        /\ last' = out.resp
        /\ UNCHANGED <<scheduleFile, reply, admitted, now, nextKey>>

(* The awaited call of the external model resolves (200) or throws (500). *)
UpstreamDone ==
  /\ pending > 0
  /\ pending' = pending - 1
  /\ \E status \in {200, 500} :
       last' = Response("upstream", NoRequest, status, 0, NoDate, 0, "", FALSE, FALSE, {})
  /\ UNCHANGED <<scheduleFile, reply, admitted, now, sessions, nextKey, rateLimitMap>>

VisionOptions ==
  /\ last' = Response("visionOptions", NoRequest, 200, 0, NoDate, 0, "", FALSE, FALSE, {})
  /\ UNCHANGED <<scheduleFile, reply, admitted, now, sessions, nextKey, rateLimitMap, pending>>

VisionMethodNotAllowed ==
  /\ last' = Response("visionMethod", NoRequest, 405, 0, NoDate, 0, "", FALSE, FALSE, {})
  /\ UNCHANGED <<scheduleFile, reply, admitted, now, sessions, nextKey, rateLimitMap, pending>>

(* Claims made by the clients of the vision endpoint. *)
VisionClaim ==
  \E req \in {r \in VisionRequests : r.key = 0 /\ ~r.image} :
    LET out == claimHandler(sessions, nextKey, req, now)
    IN  /\ out.nextKey <= MaxKeys + 1
        /\ sessions' = out.sessions
        /\ nextKey' = out.nextKey
        /\ last' = out.resp
        /\ UNCHANGED <<scheduleFile, reply, admitted, now, rateLimitMap, pending>>

NextVision ==
  \/ Tick
  \/ VisionClaim
  \/ Vision
  \/ UpstreamDone
  \/ VisionOptions
  \/ VisionMethodNotAllowed

SpecVision == Init /\ [][NextVision]_vars

Next ==
  \/ Tick
  \/ Claim
  \/ Heartbeat
  \/ Release
  \/ SessionOptions
  \/ SessionNotFound


Spec == Init /\ [][Next]_vars

(* Both endpoints over the shared session store, driven by the two clients *)
(* behind one address (two fingerprints, one client identifier).           *)
StoreRequests == {r \in Requests : r.xff = "" /\ ~r.image /\ r.key <= MaxStoreKeys}

StoreClaim ==
  \E req \in {r \in StoreRequests : r.key = 0} :
    LET out == claimHandler(sessions, nextKey, req, now)
    IN  /\ out.nextKey <= MaxStoreKeys + 1
        /\ sessions' = out.sessions
        /\ nextKey' = out.nextKey
        /\ last' = out.resp
        /\ UNCHANGED <<scheduleFile, reply, admitted, now, rateLimitMap, pending>>

StoreHeartbeat ==
  \E req \in StoreRequests :
    LET out == heartbeatHandler(sessions, req, now)
    IN  /\ sessions' = out.sessions
        /\ last' = out.resp
        /\ UNCHANGED <<scheduleFile, reply, admitted, now, nextKey, rateLimitMap, pending>>

StoreRelease ==
  \E req \in StoreRequests :
    LET out == releaseHandler(sessions, req, now)
    IN  /\ sessions' = out.sessions
        /\ last' = out.resp
        /\ UNCHANGED <<scheduleFile, reply, admitted, now, nextKey, rateLimitMap, pending>>

(* A vision request without an image: it ends at the gate (401, 429, 400). *)
StoreVision ==
  \E req \in StoreRequests :
    LET out == visionHandler(sessions, rateLimitMap, req, now)
    IN  /\ sessions' = out.sessions
        /\ rateLimitMap' = out.map
        /\ last' = out.resp
        /\ UNCHANGED <<scheduleFile, reply, admitted, now, nextKey, pending>>

NextAll ==
  \/ Tick
  \/ StoreClaim
  \/ StoreHeartbeat
  \/ StoreRelease
  \/ StoreVision
  \/ SessionOptions
  \/ SessionNotFound

SpecAll == Init /\ [][NextAll]_vars


(* ---- the rate limiter with its history ---- *)

(* One client of the vision endpoint (the limiter keeps the windows of    *)
(* different identifiers apart), with the keys the store can issue to it. *)
RateRequests == {r \in Requests : r.xff = "" /\ r.ua = "" /\ r.key <= MaxStoreKeys}

RateClaim ==
  \E req \in {r \in RateRequests : r.key = 0 /\ ~r.image} :
    LET out == claimHandler(sessions, nextKey, req, now)
    IN  /\ out.nextKey <= MaxStoreKeys + 1
        /\ sessions' = out.sessions
        /\ nextKey' = out.nextKey
        /\ last' = out.resp
        /\ UNCHANGED <<scheduleFile, reply, admitted, now, rateLimitMap, pending>>

(* The vision handler, with the accepted Check calls counted per client    *)
(* identifier and clock value.                                             *)
RateVision ==
  \E req \in RateRequests :
    LET out == visionHandler(sessions, rateLimitMap, req, now)
        accepted == out.resp.rateChecked /\ out.resp.status # 429
    IN  /\ out.resp.invoked => pending < MaxPending
        /\ sessions' = out.sessions
        /\ rateLimitMap' = out.map
        /\ pending' = IF out.resp.invoked THEN pending + 1 ELSE pending
        /\ last' = out.resp
        /\ admitted' = IF accepted
                       THEN [admitted EXCEPT ![clientIdOf(req)][now] = @ + 1]
                       ELSE admitted
        /\ UNCHANGED <<scheduleFile, reply, now, nextKey>>

NextRate ==
  \/ Tick
  \/ RateClaim
  \/ RateVision
  \/ UpstreamDone

SpecRate == Init /\ [][NextRate]_vars

(* ---- api/ncom/schedule.js ---- *)
(* The file holds two versions of the module one after the other; the     *)
(* model follows the later one (the one that knows nextRefresh).  Writes   *)
(* to the disk are taken to succeed.  The refresh intervals (1 h, 5 h,     *)
(* 24 h) are scaled to 1, 5 and 24 clock units.                            *)
MaxLen == 2

intervals == {1, 5, 24}

(* Entries of a schedule as JSON values: an object {videoIndex, delay}, a  *)
(* number, or the object {} without properties.  keys is the set of own    *)
(* enumerable properties.                                                  *)
ObjectEntry(videoIndex, delay) ==
  [type |-> "object", keys |-> {"videoIndex", "delay"}, videoIndex |-> videoIndex,
   delay |-> delay, value |-> 0]
NumberEntry(n) ==
  [type |-> "number", keys |-> {}, videoIndex |-> 0, delay |-> 0, value |-> n]
EmptyObject ==
  [type |-> "object", keys |-> {}, videoIndex |-> 0, delay |-> 0, value |-> 0]

Entries == {ObjectEntry(0, 45000), NumberEntry(7)}

Schedules == UNION {[1..n -> Entries] : n \in 0..MaxLen}

(* req.body: a JSON array, or anything else. *)
Bodies ==
  {[isArray |-> TRUE, items |-> s] : s \in Schedules} \cup {[isArray |-> FALSE, items |-> <<>>]}

(* The files the operator may have put on the disk before the first request. *)
SeedFiles ==
  {NoFile, File("corrupt", <<>>, FALSE, 0), File("other", <<>>, FALSE, 0)}
    \cup {File("array", s, FALSE, 0) : s \in Schedules}
    \cup {File("object", s, FALSE, 0) : s \in Schedules}
    \cup {File("object", s, TRUE, n) : s \in Schedules, n \in 0..1}

(* v => ({ ...v }): the own enumerable properties of v in a new object; a  *)
(* number has none.                                                        *)
spreadCopy(v) == IF v.type = "object" THEN v ELSE EmptyObject

swap(arr, i, j) == [arr EXCEPT ![i] = arr[j], ![j] = arr[i]]

(* The draws of Math.random in shuffle: for every position i one j <= i. *)
Draws == {js \in [2..MaxLen -> 1..MaxLen] : \A i \in 2..MaxLen : js[i] <= i}

(* Fisher-Yates, from the last position down to the second. *)
RECURSIVE shuffleFrom(_, _, _)
shuffleFrom(arr, i, js) ==
  IF i < 2 THEN arr ELSE shuffleFrom(swap(arr, i, js[i]), i - 1, js)

shuffle(arr, js) == shuffleFrom(arr, Len(arr), js)

saveSchedule(schedule, nextRefresh) == File("object", schedule, TRUE, nextRefresh)

(* Mutant: a legacy array is wrapped for the answer but not written back. *)
loadScheduleNotPersisted(file, t, interval) ==
  IF file.shape = "missing" \/ file.shape = "corrupt" \/ file.shape = "other"
  THEN [path |-> "null", ok |-> FALSE, schedule |-> <<>>, nextRefresh |-> 0, file |-> file]
  ELSE IF file.shape = "array"
  THEN [path |-> "wrapped", ok |-> TRUE, schedule |-> file.schedule, nextRefresh |-> t + interval,
        file |-> file]
  ELSE IF ~file.hasRefresh \/ file.nextRefresh = 0
  THEN [path |-> "refreshed", ok |-> TRUE, schedule |-> file.schedule, nextRefresh |-> t + interval,
        file |-> File("object", file.schedule, TRUE, t + interval)]
  ELSE [path |-> "read", ok |-> TRUE, schedule |-> file.schedule, nextRefresh |-> file.nextRefresh,
        file |-> file]

(* loadSchedule: null (ok = FALSE) for a missing, unreadable or oddly      *)
(* shaped file; a legacy array is wrapped and written back; an object      *)
(* whose nextRefresh is missing, not a number or 0 gets a new one, written *)
(* back as well.                                                           *)
loadSchedule(file, t, interval) ==
  IF file.shape = "missing" \/ file.shape = "corrupt" \/ file.shape = "other"
  THEN [path |-> "null", ok |-> FALSE, schedule |-> <<>>, nextRefresh |-> 0, file |-> file]
  ELSE IF file.shape = "array"
  THEN [path |-> "wrapped", ok |-> TRUE, schedule |-> file.schedule, nextRefresh |-> t + interval,
        file |-> File("object", file.schedule, TRUE, t + interval)]
  ELSE IF ~file.hasRefresh \/ file.nextRefresh = 0
  THEN [path |-> "refreshed", ok |-> TRUE, schedule |-> file.schedule, nextRefresh |-> t + interval,
        file |-> File("object", file.schedule, TRUE, t + interval)]
  ELSE [path |-> "read", ok |-> TRUE, schedule |-> file.schedule, nextRefresh |-> file.nextRefresh,
        file |-> file]

(* handler: load, 500 without data, rotate when due, then the method.      *)
(* picks are the values pickRandomInterval returns, in the order of its    *)
(* calls: loadSchedule draws one when it sets nextRefresh (the rotation is *)
(* then not due), the rotation draws one, an accepted POST draws one, so a *)
(* request draws at most two.                                              *)
scheduleHandler(file, method, body, t, picks, js) ==
  LET drawsOnLoad == \/ file.shape = "array"
                     \/ file.shape = "object" /\ (~file.hasRefresh \/ file.nextRefresh = 0)
      data == loadSchedule(file, t, picks[1])
      due == t >= data.nextRefresh
      rotatePick == IF drawsOnLoad THEN picks[2] ELSE picks[1]
      postPick == IF drawsOnLoad \/ due THEN picks[2] ELSE picks[1]
      newSchedule == shuffle([i \in 1..Len(data.schedule) |-> spreadCopy(data.schedule[i])], js)
      schedule == IF due THEN newSchedule ELSE data.schedule
      nextRefresh == IF due THEN t + rotatePick ELSE data.nextRefresh
      rotated == IF due THEN saveSchedule(newSchedule, t + rotatePick) ELSE data.file
  IN  IF ~data.ok
      THEN [file |-> data.file, reply |-> Reply(method, 500, "error", <<>>, 0, data.path)]
      ELSE IF method = "GET"
      THEN [file |-> rotated, reply |-> Reply(method, 200, "data", schedule, nextRefresh, data.path)]
      ELSE IF method = "POST"
      THEN IF ~body.isArray
           THEN [file |-> rotated, reply |-> Reply(method, 400, "error", <<>>, 0, data.path)]
           ELSE [file |-> saveSchedule(body.items, t + postPick),
                 reply |-> Reply(method, 200, "success", body.items, 0, data.path)]
      ELSE [file |-> rotated, reply |-> Reply(method, 405, "none", <<>>, 0, data.path)]

Picks == [1..2 -> intervals]

ScheduleGet ==
  \E picks \in Picks, js \in Draws :
    LET out == scheduleHandler(scheduleFile, "GET", [isArray |-> FALSE, items |-> <<>>],
                               now, picks, js)
    IN  /\ scheduleFile' = out.file
        /\ reply' = out.reply
        /\ UNCHANGED <<admitted, now, sessions, nextKey, rateLimitMap, pending, last>>

SchedulePost ==
  \E body \in Bodies, picks \in Picks, js \in Draws :
    LET out == scheduleHandler(scheduleFile, "POST", body, now, picks, js)
    IN  /\ scheduleFile' = out.file
        /\ reply' = out.reply
        /\ UNCHANGED <<admitted, now, sessions, nextKey, rateLimitMap, pending, last>>

ScheduleMethodNotAllowed ==
  \E picks \in Picks, js \in Draws :
    LET out == scheduleHandler(scheduleFile, "DELETE", [isArray |-> FALSE, items |-> <<>>],
                               now, picks, js)
    IN  /\ scheduleFile' = out.file
        /\ reply' = out.reply
        /\ UNCHANGED <<admitted, now, sessions, nextKey, rateLimitMap, pending, last>>

InitSchedule ==
  /\ now = 0
  /\ sessions = <<>>
  /\ nextKey = 1
  /\ rateLimitMap = <<>>
  /\ pending = 0
  /\ last = Response("none", NoRequest, 0, 0, NoDate, 0, "", FALSE, FALSE, {})
  /\ scheduleFile \in SeedFiles
  /\ reply = NoReply
  /\ admitted = NoneAdmitted

NextSchedule ==
  \/ Tick
  \/ ScheduleGet
  \/ SchedulePost
  \/ ScheduleMethodNotAllowed

SpecSchedule == InitSchedule /\ [][NextSchedule]_vars

(* ======================= Properties ======================= *)

(* A session is live as long as now > expiresAt does not hold. *)
Live(session, t) == ~(t > session.expiresAt)

LiveKeysOf(fingerprint) ==
  {k \in DOMAIN sessions : sessions[k].fingerprint = fingerprint /\ Live(sessions[k], now)}

(* A step taken by the handler of `op`: handlers leave the clock alone and *)
(* record themselves in last; Tick leaves last alone.                     *)
StepOf(op) == now' = now /\ last'.op = op

Size(s) == Cardinality(DOMAIN s)

(* C1: the table never holds two live sessions with the same fingerprint, *)
(* a session being live until now > expiresAt.                            *)
C1_OneLiveSessionPerFingerprint ==
  \A k1, k2 \in DOMAIN sessions :
    (k1 # k2 /\ sessions[k1].fingerprint = sessions[k2].fingerprint)
      => ~(Live(sessions[k1], now) /\ Live(sessions[k2], now))

(* C2: a Claim by a fingerprint that has a live session succeeds with the *)
(* key of that session and creates nothing, whatever the table size.      *)
C2_ReuseBeforeCapacity ==
  [][(StepOf("claim") /\ LiveKeysOf(last'.fp) # {})
       => /\ last'.status = 200
          /\ last'.sessionKey \in LiveKeysOf(last'.fp)
          /\ nextKey' = nextKey]_vars

(* C3 as stated: the table holds at most MAX_SESSIONS entries; a Claim by *)
(* a fingerprint with no live session is rejected with 429 and changes    *)
(* nothing when the table holds MAX_SESSIONS entries, and succeeds with   *)
(* exactly one new session when it holds MAX_SESSIONS - 1.                *)
C3_Original ==
  /\ [](Size(sessions) <= MAX_SESSIONS)
  /\ [][(StepOf("claim") /\ LiveKeysOf(last'.fp) = {})
         => /\ Size(sessions) = MAX_SESSIONS
                 => (last'.status = 429 /\ sessions' = sessions)
            /\ Size(sessions) = MAX_SESSIONS - 1
                 => /\ last'.status = 200
                    /\ Cardinality(DOMAIN sessions' \ DOMAIN sessions) = 1]_vars

(* C3 amended: the capacity check counts the entries left by the sweep at *)
(* the start of the request.  With MAX_SESSIONS entries none of which is  *)
(* expired the Claim is rejected with 429 and the table is unchanged;     *)
(* with MAX_SESSIONS entries of which some are expired, or with           *)
(* MAX_SESSIONS - 1 entries, it succeeds and inserts exactly one session. *)
C3_CapacityAfterSweep ==
  /\ [](Size(sessions) <= MAX_SESSIONS)
  /\ [][(StepOf("claim") /\ LiveKeysOf(last'.fp) = {})
         => LET expired == {k \in DOMAIN sessions : ~Live(sessions[k], now)}
            IN  /\ (Size(sessions) = MAX_SESSIONS /\ expired = {})
                     => (last'.status = 429 /\ sessions' = sessions)
                /\ (Size(sessions) = MAX_SESSIONS - 1 \/
                    (Size(sessions) = MAX_SESSIONS /\ expired # {}))
                     => /\ last'.status = 200
                        /\ Cardinality(DOMAIN sessions' \ DOMAIN sessions) = 1
                        /\ DOMAIN sessions' = (DOMAIN sessions \ expired) \cup {last'.sessionKey}
                        /\ \A k \in DOMAIN sessions \ expired : sessions'[k] = sessions[k]]_vars

(* C3 witness: a Claim by a fingerprint without a session was rejected at *)
(* a full table of live sessions.                                         *)
C3_Witness ==
  /\ last.op = "claim" /\ last.status = 429
  /\ Size(sessions) = MAX_SESSIONS
  /\ \A k \in DOMAIN sessions : sessions[k].fingerprint # last.fp /\ Live(sessions[k], now)
(* C4: a Heartbeat on a key whose session has now > expiresAt answers 404 *)
(* whatever the fingerprint, extends nothing and leaves the key absent;   *)
(* an absent key that was issued before stays absent, so every later      *)
(* Heartbeat on it answers 404 too.                                       *)
C4_HeartbeatOnExpired ==
  [][/\ (StepOf("heartbeat") /\ last'.key \in DOMAIN sessions
           /\ now > sessions[last'.key].expiresAt)
        => /\ last'.status = 404
           /\ last'.key \notin DOMAIN sessions'
           /\ last'.key \in last'.purged
     /\ (StepOf("heartbeat") /\ last'.key \in 1..(nextKey - 1)
           /\ last'.key \notin DOMAIN sessions)
        => (last'.status = 404 /\ last'.key \notin DOMAIN sessions')
     /\ \A k \in 1..(nextKey - 1) : k \notin DOMAIN sessions => k \notin DOMAIN sessions'
    ]_vars

(* C4 witness: a Heartbeat found its session expired, purged it and       *)
(* answered 404.                                                          *)
C4_Witness ==
  /\ last.op = "heartbeat" /\ last.status = 404
  /\ last.key \in last.purged
  /\ last.key \notin DOMAIN sessions

(* C5: a Heartbeat or Release with the key of a live session and another  *)
(* fingerprint answers 403 and leaves the session as it was.              *)
C5_FingerprintMismatch ==
  [][((StepOf("heartbeat") \/ StepOf("release"))
        /\ last'.key \in DOMAIN sessions
        /\ Live(sessions[last'.key], now)
        /\ sessions[last'.key].fingerprint # last'.fp)
       => /\ last'.status = 403
          /\ last'.key \in DOMAIN sessions'
          /\ sessions'[last'.key] = sessions[last'.key]]_vars

(* C5 witness: a Release from another fingerprint was refused and the     *)
(* session is still in the table.                                         *)
C5_Witness ==
  /\ last.op = "release" /\ last.status = 403
  /\ last.key \in DOMAIN sessions
  /\ sessions[last.key].fingerprint # last.fp

(* C6: expiresAt = t + SESSION_TIMEOUT where t is the later of creation   *)
(* and the latest successful Heartbeat; a successful Heartbeat at t sets  *)
(* lastHeartbeat = t and expiresAt = t + SESSION_TIMEOUT, keeps createdAt *)
(* and returns the new expiry; a created session has both times = t.      *)
C6_ExpiryFromLatestHeartbeat ==
  /\ [](\A k \in DOMAIN sessions :
          /\ sessions[k].expiresAt = sessions[k].lastHeartbeat + SESSION_TIMEOUT
          /\ sessions[k].createdAt <= sessions[k].lastHeartbeat
          /\ sessions[k].lastHeartbeat <= now)
  /\ [][/\ (StepOf("heartbeat") /\ last'.status = 200)
           => /\ last'.key \in DOMAIN sessions /\ last'.key \in DOMAIN sessions'
              /\ sessions'[last'.key].lastHeartbeat = now
              /\ sessions'[last'.key].expiresAt = now + SESSION_TIMEOUT
              /\ sessions'[last'.key].createdAt = sessions[last'.key].createdAt
              /\ last'.expiresAt = toISOString(now + SESSION_TIMEOUT)
        /\ \A k \in DOMAIN sessions' \ DOMAIN sessions :
              /\ sessions'[k].createdAt = now
              /\ sessions'[k].expiresAt = now + SESSION_TIMEOUT
        /\ \A k \in DOMAIN sessions' \cap DOMAIN sessions :
              sessions'[k] # sessions[k] => (StepOf("heartbeat") /\ last'.key = k
                                              /\ last'.status = 200)
       ]_vars

(* C6 witness: a Heartbeat extended a session created earlier, so its     *)
(* expiry is no longer createdAt + SESSION_TIMEOUT.                       *)
C6_Witness ==
  /\ last.op = "heartbeat" /\ last.status = 200
  /\ last.key \in DOMAIN sessions
  /\ sessions[last.key].createdAt < sessions[last.key].lastHeartbeat
  /\ sessions[last.key].expiresAt = now + SESSION_TIMEOUT
  /\ last.expiresAt = toISOString(sessions[last.key].expiresAt)
(* A vision request whose session passes: key present and stored, not     *)
(* expired, same fingerprint (stated on the state before the request).    *)
Authorized(key, fingerprint) ==
  /\ key \in DOMAIN sessions
  /\ ~(now > sessions[key].expiresAt)
  /\ sessions[key].fingerprint = fingerprint

(* C7: from no window the first Check of X is accepted and opens a window *)
(* with count = 1 and resetAt = now + RATE_WINDOW; while now <= resetAt a *)
(* Check is accepted exactly when fewer than RATE_LIMIT were accepted in  *)
(* the window (count counts them), so the first RATE_LIMIT pass and the   *)
(* next is refused; the first Check with now > resetAt is accepted and    *)
(* leaves count = 1 and resetAt = now + RATE_WINDOW.                      *)
C7_FixedWindow ==
  /\ [](\A i \in DOMAIN rateLimitMap :
          rateLimitMap[i].count >= 1 /\ rateLimitMap[i].count <= RATE_LIMIT)
  /\ [][(StepOf("vision") /\ last'.rateChecked)
         => LET x == last'.clientId
                accepted == last'.status # 429
            IN  /\ x \in DOMAIN rateLimitMap'
                /\ (x \notin DOMAIN rateLimitMap \/ now > rateLimitMap[x].resetAt)
                     => /\ accepted
                        /\ rateLimitMap'[x] = [count |-> 1, resetAt |-> now + RATE_WINDOW]
                /\ (x \in DOMAIN rateLimitMap /\ now <= rateLimitMap[x].resetAt)
                     => /\ accepted <=> rateLimitMap[x].count < RATE_LIMIT
                        /\ rateLimitMap'[x].resetAt = rateLimitMap[x].resetAt
                        /\ rateLimitMap'[x].count =
                             IF accepted THEN rateLimitMap[x].count + 1
                             ELSE rateLimitMap[x].count
                /\ \A i \in DOMAIN rateLimitMap \ {x} :
                     i \in DOMAIN rateLimitMap' /\ rateLimitMap'[i] = rateLimitMap[i]]_vars

(* C7 witness: the call after RATE_LIMIT accepted ones, still inside the  *)
(* window, was refused.                                                   *)
C7_Witness ==
  /\ last.op = "vision" /\ last.status = 429 /\ last.rateChecked
  /\ last.clientId \in DOMAIN rateLimitMap
  /\ rateLimitMap[last.clientId].count = RATE_LIMIT
  /\ now <= rateLimitMap[last.clientId].resetAt

(* C8: a vision request without a key, with an unknown key, an expired    *)
(* session or another fingerprint is answered 401 without consulting the  *)
(* rate limiter: every window is unchanged and no call of the external    *)
(* model is started.                                                      *)
C8_UnauthorizedBeforeRateLimit ==
  [][StepOf("vision")
       => /\ ~Authorized(last'.key, last'.fp) <=> last'.status = 401
          /\ last'.status = 401
               => /\ rateLimitMap' = rateLimitMap
                  /\ ~last'.rateChecked
                  /\ ~last'.invoked
                  /\ pending' = pending]_vars

(* C8 witness: a request with the key of a live session of another        *)
(* fingerprint was answered 401 while its client had an open window.      *)
C8_Witness ==
  /\ last.op = "vision" /\ last.status = 401
  /\ last.key \in DOMAIN sessions
  /\ sessions[last.key].fingerprint # last.fp
  /\ last.clientId \in DOMAIN rateLimitMap

(* C9: the external model is invoked only by a vision request whose       *)
(* session was valid and whose Check was accepted (in that order: the     *)
(* limiter is consulted only for a valid session); a request answered 429 *)
(* never invokes it.                                                      *)
C9_InvokeAfterValidateAndCheck ==
  [][/\ pending' > pending => (StepOf("vision") /\ last'.invoked /\ pending' = pending + 1)
     /\ StepOf("vision")
          => /\ last'.invoked => pending' = pending + 1
             /\ last'.rateChecked => Authorized(last'.key, last'.fp)
             /\ last'.invoked
                  => /\ Authorized(last'.key, last'.fp)
                     /\ last'.rateChecked
                     /\ last'.clientId \in DOMAIN rateLimitMap'
                     /\ \/ last'.clientId \notin DOMAIN rateLimitMap
                        \/ now > rateLimitMap[last'.clientId].resetAt
                        \/ rateLimitMap'[last'.clientId].count
                             = rateLimitMap[last'.clientId].count + 1
                     /\ last'.status \notin {401, 429}
             /\ last'.status = 429
                  => /\ Authorized(last'.key, last'.fp)
                     /\ ~last'.invoked
                     /\ pending' = pending]_vars

(* C9 witness: a request was passed on to the external model and is being *)
(* awaited.                                                               *)
C9_Witness ==
  /\ last.op = "vision" /\ last.invoked /\ last.rateChecked
  /\ last.reason = "valid"
  /\ pending > 0

(* C10: Validate answers NotFound for an absent key; else Expired when    *)
(* now > expiresAt, removing that session and no other; else              *)
(* FingerprintMismatch; else Valid; in the last three outcomes other than *)
(* Expired the table is unchanged.                                        *)
C10_ValidatePrecedence ==
  [][(StepOf("vision") /\ last'.key # 0)
       => LET k == last'.key IN
          IF k \notin DOMAIN sessions
          THEN last'.reason = "Session not found or expired" /\ sessions' = sessions
          ELSE IF now > sessions[k].expiresAt
          THEN /\ last'.reason = "Session expired"
               /\ DOMAIN sessions' = DOMAIN sessions \ {k}
               /\ \A j \in DOMAIN sessions' : sessions'[j] = sessions[j]
          ELSE IF sessions[k].fingerprint # last'.fp
          THEN last'.reason = "Session fingerprint mismatch" /\ sessions' = sessions
          ELSE last'.reason = "valid" /\ sessions' = sessions]_vars

(* C10 witness: Validate found a session expired and purged it while      *)
(* another expired session stayed in the table.                           *)
C10_Witness ==
  /\ last.op = "vision" /\ last.reason = "Session expired"
  /\ last.purged = {last.key}
  /\ \E j \in DOMAIN sessions : now > sessions[j].expiresAt

(* The keys of removed sessions: issued earlier, no longer in the table. *)
RemovedKeys == {k \in 1..(nextKey - 1) : k \notin DOMAIN sessions}

(* C11: deletion is terminal.  Once a session has been removed (Release,  *)
(* sweep or purge on access) every later Heartbeat or Release with its    *)
(* key answers 404, every later Validate answers "not found", and no step *)
(* puts a session under that key again.                                   *)
C11_DeletionTerminal ==
  [][/\ \A k \in RemovedKeys : k \notin DOMAIN sessions'
     /\ ((StepOf("heartbeat") \/ StepOf("release")) /\ last'.key \in RemovedKeys)
          => last'.status = 404
     /\ (StepOf("vision") /\ last'.key \in RemovedKeys)
          => (last'.status = 401 /\ last'.reason = "Session not found or expired")
    ]_vars

(* C11 witness: a Release of a key that was issued and already released    *)
(* (nothing can have expired yet) answered 404, and a session created      *)
(* after the removal has another key.                                      *)
C11_Witness ==
  /\ last.op = "release" /\ last.status = 404
  /\ last.key \in RemovedKeys
  /\ now < SESSION_TIMEOUT
  /\ \E k \in DOMAIN sessions : k > last.key

(* C12: every 200 answer of Claim, for a created session and for a reused  *)
(* one alike, names a session of the table, carries the stored expiresAt   *)
(* of that session as a date and heartbeatInterval = 60000.                *)
C12_ClaimResponseShape ==
  [][(StepOf("claim") /\ last'.status = 200)
       => /\ last'.sessionKey \in DOMAIN sessions'
          /\ last'.expiresAt = toISOString(sessions'[last'.sessionKey].expiresAt)
          /\ last'.heartbeatInterval = HEARTBEAT_INTERVAL]_vars

(* A step taken by the schedule handler for a request of method m. *)
ScheduleStep(m) == now' = now /\ reply'.method = m

(* Number of occurrences of x in the sequence s. *)
Occurrences(s, x) == Cardinality({i \in 1..Len(s) : s[i] = x})

IsPermutation(a, b) ==
  /\ Len(a) = Len(b)
  /\ \A i \in 1..Len(a) : Occurrences(a, a[i]) = Occurrences(b, a[i])

(* The file holds the document {schedule, nextRefresh} with a usable nextRefresh. *)
Stored(file) == file.shape = "object" /\ file.hasRefresh /\ file.nextRefresh # 0

(* C13: a GET made while now < nextRefresh answers the stored schedule in  *)
(* the stored order and leaves the file as it is; an accepted POST of A    *)
(* stores A; a GET made when now >= nextRefresh stores and answers a       *)
(* permutation of the stored entries with nextRefresh = now + 1, 5 or 24   *)
(* hours.                                                                  *)
C13_ScheduleRotation ==
  [][/\ (ScheduleStep("GET") /\ Stored(scheduleFile) /\ now < scheduleFile.nextRefresh)
          => /\ reply'.status = 200
             /\ reply'.schedule = scheduleFile.schedule
             /\ reply'.nextRefresh = scheduleFile.nextRefresh
             /\ scheduleFile' = scheduleFile
     /\ (ScheduleStep("POST") /\ reply'.status = 200)
          => /\ Stored(scheduleFile')
             /\ scheduleFile'.schedule = reply'.schedule
             /\ scheduleFile'.nextRefresh \in {now + i : i \in intervals}
     /\ (ScheduleStep("GET") /\ Stored(scheduleFile) /\ now >= scheduleFile.nextRefresh)
          => /\ reply'.status = 200
             /\ IsPermutation(reply'.schedule, scheduleFile.schedule)
             /\ Stored(scheduleFile')
             /\ scheduleFile'.schedule = reply'.schedule
             /\ scheduleFile'.nextRefresh = reply'.nextRefresh
             /\ reply'.nextRefresh \in {now + i : i \in intervals}
    ]_vars

Methods == {"GET", "POST", "DELETE"}

(* C14: the first request that finds a legacy bare array L on the disk     *)
(* rewrites the file as {schedule, nextRefresh}; unless that request is a  *)
(* POST that replaces the schedule, the file holds exactly the entries of  *)
(* L in their order, with nextRefresh = now + 1, 5 or 24 hours, which is   *)
(* in the future, and a GET answers that same document.                    *)
C14_LegacyArrayMigrated ==
  [][\A m \in Methods :
       (ScheduleStep(m) /\ scheduleFile.shape = "array")
         => /\ reply'.path = "wrapped"
            /\ Stored(scheduleFile')
            /\ scheduleFile'.nextRefresh > now
            /\ (m # "POST" \/ reply'.status # 200)
                 => /\ scheduleFile'.schedule = scheduleFile.schedule
                    /\ scheduleFile'.nextRefresh \in {now + i : i \in intervals}
            /\ m = "GET"
                 => /\ reply'.status = 200 /\ reply'.kind = "data"
                    /\ reply'.schedule = scheduleFile.schedule
                    /\ reply'.nextRefresh = scheduleFile'.nextRefresh
    ]_vars

(* C14 witness: a GET found a legacy array of two different entries and    *)
(* answered the wrapped document that is now on the disk.                  *)
C14_Witness ==
  /\ reply.method = "GET" /\ reply.status = 200 /\ reply.path = "wrapped"
  /\ Len(reply.schedule) = 2 /\ reply.schedule[1] # reply.schedule[2]
  /\ Stored(scheduleFile)
  /\ scheduleFile.schedule = reply.schedule
  /\ scheduleFile.nextRefresh = reply.nextRefresh
  /\ scheduleFile.nextRefresh > now

(* The sessions of s that a sweep at time t removes. *)
ExpiredKeys(s, t) == {k \in DOMAIN s : t > s[k].expiresAt}

(* C15 as stated: every request, OPTIONS and vision requests included,    *)
(* sweeps, so when any request has finished the table holds no session    *)
(* whose expiresAt is earlier than the time of the request.               *)
C15_Original ==
  [][now' = now => ExpiredKeys(sessions', now) = {}]_vars

(* C15 amended: a request to the session endpoint other than OPTIONS       *)
(* removes exactly the expired sessions first, so none is left when it     *)
(* has finished; an OPTIONS request leaves the table as it is, and a       *)
(* vision request removes at most the session whose key it presents.       *)
C15_SweepOnSessionRequests ==
  [][/\ (StepOf("claim") \/ StepOf("heartbeat") \/ StepOf("release") \/ StepOf("notfound"))
          => /\ last'.purged = ExpiredKeys(sessions, now)
             /\ DOMAIN sessions' \cap ExpiredKeys(sessions, now) = {}
             /\ ExpiredKeys(sessions', now) = {}
     /\ StepOf("options") => sessions' = sessions
     /\ StepOf("vision")
          => /\ DOMAIN sessions \ DOMAIN sessions' \subseteq {last'.key}
             /\ \A k \in DOMAIN sessions' : k \in DOMAIN sessions /\ sessions'[k] = sessions[k]
    ]_vars

(* C15 witness: a request to the session endpoint swept two expired        *)
(* sessions at once and left the table empty.                              *)
C15_Witness ==
  /\ last.op = "notfound"
  /\ Cardinality(last.purged) = 2
  /\ sessions = <<>>

(* C16 as stated: the capacity check of Claim counts every entry of the    *)
(* table as the request finds it, expired ones included (the check comes   *)
(* before the sweep): a Claim is rejected with 429 exactly when the table  *)
(* holds MAX_SESSIONS entries or more.                                     *)
C16_Original ==
  [][StepOf("claim") => (last'.status = 429 <=> Size(sessions) >= MAX_SESSIONS)]_vars

(* C16 amended: the sweep comes first and the check counts what it left.   *)
(* A Claim is rejected with 429 exactly when MAX_SESSIONS entries or more  *)
(* are not expired; in a table of MAX_SESSIONS entries of which one has    *)
(* now > expiresAt a Claim is accepted.                                    *)
C16_CapacityCountsUnexpired ==
  [][StepOf("claim")
       => /\ last'.status = 429
               <=> Size(sessions) - Cardinality(ExpiredKeys(sessions, now)) >= MAX_SESSIONS
          /\ (Size(sessions) = MAX_SESSIONS /\ ExpiredKeys(sessions, now) # {})
               => (last'.status = 200 /\ last'.purged = ExpiredKeys(sessions, now))]_vars

(* C16 witness: a Claim found a full table with one expired entry, swept   *)
(* it and created a session in its place.                                  *)
C16_Witness ==
  /\ last.op = "claim" /\ last.status = 200
  /\ Cardinality(last.purged) = 1
  /\ Size(sessions) = MAX_SESSIONS
  /\ last.sessionKey \in DOMAIN sessions
  /\ sessions[last.sessionKey].createdAt = now
  /\ last.heartbeatInterval = HEARTBEAT_INTERVAL

(* The number of accepted Check calls of identifier id at the clock values *)
(* a..b (those outside 0..MaxNow have none).                              *)
RECURSIVE AdmittedIn(_, _, _)
AdmittedIn(id, a, b) ==
  IF a > b THEN 0
  ELSE (IF a \in 0..MaxNow THEN admitted[id][a] ELSE 0) + AdmittedIn(id, a + 1, b)

(* The time spans a..b of length at most w. *)
Spans(w) == {s \in (0..MaxNow) \X (0..MaxNow) : s[1] <= s[2] /\ s[2] - s[1] <= w}

(* RATE_LIMIT calls were accepted in the window that ends at r and        *)
(* RATE_LIMIT in the window that follows it.                              *)
StraddlingBurst(id, r) ==
  /\ AdmittedIn(id, r - RATE_WINDOW, r) >= RATE_LIMIT
  /\ AdmittedIn(id, r + 1, r + 1 + RATE_WINDOW) >= RATE_LIMIT

(* C17 as stated: in a span of length at most RATE_WINDOW no identifier    *)
(* has more than 2 x RATE_LIMIT accepted calls, and a burst that straddles *)
(* a window boundary puts 2 x RATE_LIMIT accepted calls in such a span.    *)
C17_Original ==
  \A id \in ClientIds :
    /\ \A s \in Spans(RATE_WINDOW) : AdmittedIn(id, s[1], s[2]) <= 2 * RATE_LIMIT
    /\ \A r \in 0..MaxNow :
         StraddlingBurst(id, r)
           => \E s \in Spans(RATE_WINDOW) : AdmittedIn(id, s[1], s[2]) = 2 * RATE_LIMIT

(* C17 amended: a span of length at most RATE_WINDOW holds at most         *)
(* 2 x RATE_LIMIT - 1 accepted calls of one identifier (the call that      *)
(* opens a window is a whole RATE_WINDOW before its resetAt, and the next  *)
(* window opens only after resetAt); 2 x RATE_LIMIT is the bound for spans *)
(* one clock unit longer.                                                  *)
C17_BurstAcrossBoundary ==
  \A id \in ClientIds :
    /\ \A s \in Spans(RATE_WINDOW) : AdmittedIn(id, s[1], s[2]) <= 2 * RATE_LIMIT - 1
    /\ \A s \in Spans(RATE_WINDOW + 1) : AdmittedIn(id, s[1], s[2]) <= 2 * RATE_LIMIT

(* C17 witness: both bounds are attained by one burst across a boundary.   *)
C17_Witness ==
  \E id \in ClientIds, a \in 1..MaxNow :
    /\ a + RATE_WINDOW <= MaxNow
    /\ AdmittedIn(id, a, a + RATE_WINDOW) = 2 * RATE_LIMIT - 1
    /\ AdmittedIn(id, a - 1, a + RATE_WINDOW) = 2 * RATE_LIMIT
    /\ StraddlingBurst(id, a)

(* C18: whatever the interleaving of vision requests, suspended ones       *)
(* included, every window has 0 <= count <= RATE_LIMIT, and count is the   *)
(* number of calls accepted since the window was opened (at resetAt -      *)
(* RATE_WINDOW), so at most RATE_LIMIT are accepted between two resets; a  *)
(* rejected Check leaves every window as it was; the completion of a       *)
(* suspended request touches no window.                                    *)
C18_WindowCount ==
  /\ [](\A id \in DOMAIN rateLimitMap :
          /\ rateLimitMap[id].count \in 0..RATE_LIMIT
          /\ AdmittedIn(id, rateLimitMap[id].resetAt - RATE_WINDOW, MaxNow)
               = rateLimitMap[id].count
          /\ AdmittedIn(id, rateLimitMap[id].resetAt - RATE_WINDOW, MaxNow) <= RATE_LIMIT)
  /\ [][/\ (StepOf("vision") /\ last'.rateChecked /\ last'.status = 429)
             => (rateLimitMap' = rateLimitMap /\ admitted' = admitted)
        /\ StepOf("upstream") => (rateLimitMap' = rateLimitMap /\ admitted' = admitted)
       ]_vars

(* C18 witness: while a request is suspended on the external model, a      *)
(* later request of the same identifier was rejected at count = RATE_LIMIT. *)
C18_Witness ==
  /\ pending > 0
  /\ last.op = "vision" /\ last.status = 429 /\ last.rateChecked
  /\ last.clientId \in DOMAIN rateLimitMap
  /\ rateLimitMap[last.clientId].count = RATE_LIMIT
  /\ AdmittedIn(last.clientId, rateLimitMap[last.clientId].resetAt - RATE_WINDOW, MaxNow)
       = RATE_LIMIT

(* The default schedule of the earlier definition of loadSchedule. *)
DefaultSchedule == <<ObjectEntry(0, 45000), ObjectEntry(1, 120000)>>

(* C19: when the schedule file does not exist a request is not answered    *)
(* with an error, a GET answers 200 with the default schedule; a 500 is    *)
(* given only for a file that exists.                                      *)
C19_MissingFileDefaults ==
  [][\A m \in Methods :
       ScheduleStep(m)
         => /\ (scheduleFile.shape = "missing" /\ m = "GET")
                 => (reply'.status = 200 /\ reply'.schedule = DefaultSchedule)
            /\ reply'.status = 500 => scheduleFile.shape # "missing"
    ]_vars

(* C20: a live session (now <= expiresAt) stays in the table with its      *)
(* fingerprint through every step but one, a Release answered 200 that     *)
(* presents its key and its own fingerprint; that Release removes it.      *)
C20_OnlyOwnReleaseRemovesLive ==
  [][\A k \in DOMAIN sessions :
       Live(sessions[k], now)
         => LET ownRelease == /\ StepOf("release") /\ last'.key = k
                              /\ last'.fp = sessions[k].fingerprint
            IN  /\ ownRelease => (last'.status = 200 /\ k \notin DOMAIN sessions')
                /\ ~ownRelease
                     => /\ k \in DOMAIN sessions'
                        /\ sessions'[k].fingerprint = sessions[k].fingerprint
                        /\ sessions'[k].createdAt = sessions[k].createdAt
    ]_vars

(* C20 witness: a Release with the key and the fingerprint of a session    *)
(* removed it while the session of another client, which is not expired,   *)
(* stayed in the table.                                                    *)
C20_Witness ==
  /\ last.op = "release" /\ last.status = 200
  /\ last.key \notin DOMAIN sessions
  /\ last.key \in 1..(nextKey - 1)
  /\ \E j \in DOMAIN sessions : Live(sessions[j], now) /\ sessions[j].fingerprint # last.fp

(* The count an accepted Check of identifier x at time t leaves in map m:  *)
(* 1 in a new or reset window, one more than before otherwise.             *)
CountAfterAccept(m, x, t) ==
  IF x \notin DOMAIN m \/ t > m[x].resetAt THEN 1 ELSE m[x].count + 1

(* C21: a vision request whose Check returned true has used one unit of    *)
(* the window of its identifier, whether it goes on to the external model  *)
(* or is refused with 400 for its missing image; the unit is not given     *)
(* back: the completion of the external call, with 200 or with 500, leaves *)
(* every window as it is, and a count goes down only by the reset of its   *)
(* window at an accepted Check.                                            *)
C21_RateUnitConsumed ==
  [][/\ (StepOf("vision") /\ last'.rateChecked /\ last'.status # 429)
          => /\ last'.status = 400 \/ last'.invoked
             /\ last'.clientId \in DOMAIN rateLimitMap'
             /\ rateLimitMap'[last'.clientId].count
                  = CountAfterAccept(rateLimitMap, last'.clientId, now)
             /\ admitted'[last'.clientId][now] = admitted[last'.clientId][now] + 1
     /\ StepOf("upstream")
          => /\ last'.status \in {200, 500}
             /\ rateLimitMap' = rateLimitMap
     /\ \A id \in DOMAIN rateLimitMap :
          /\ id \in DOMAIN rateLimitMap'
          /\ rateLimitMap'[id].count < rateLimitMap[id].count
               => /\ StepOf("vision") /\ last'.clientId = id /\ last'.status # 429
                  /\ now > rateLimitMap[id].resetAt
                  /\ rateLimitMap'[id].count = 1
    ]_vars

(* C21 witness: the external call of a request failed with 500 and the     *)
(* window of the client still counts RATE_LIMIT accepted calls, the failed *)
(* one among them.                                                         *)
C21_Witness ==
  /\ last.op = "upstream" /\ last.status = 500
  /\ pending = 0
  /\ \E id \in DOMAIN rateLimitMap :
       /\ rateLimitMap[id].count = RATE_LIMIT
       /\ now <= rateLimitMap[id].resetAt
       /\ AdmittedIn(id, rateLimitMap[id].resetAt - RATE_WINDOW, MaxNow) = RATE_LIMIT
====
